---- MODULE Spec2Model ----
(***************************************************************************)
(* Model of bot.py: the per-user conversation state machine (aiogram FSM   *)
(* over MemoryStorage), the dispatch of messages and button callbacks to   *)
(* the registered handlers, and the per-user server registry kept in       *)
(* data/servers.json.                                                      *)
(*                                                                         *)
(* A text is a sequence of one-character strings, so that int(), str(),    *)
(* the "/command" filter, startswith() and split("_")[-1] are computed     *)
(* character by character as the code computes them.                       *)
(*                                                                         *)
(* In Spec every handler is one atomic action (events are handled one      *)
(* after the other); the outcome of the remote call is an input.  In       *)
(* SpecTasks and SpecConsole the handlers that change the registry and     *)
(* that make remote calls run as coroutines of one event loop and          *)
(* interleave at their awaits.                                             *)
(***************************************************************************)
EXTENDS Integers, Sequences, FiniteSets, TLC

\* ------------------------------------------------------------------ bounds
\* The largest number of profiles one user's registry holds in the model:
\* the password step of the wizard is offered only below this size.
MaxServers == 2

\* The largest number of handler coroutines in flight at the same time.
MaxTasks == 2

\* Telegram user ids of the two users of the model.
Users == {7, 12}

\* The admin allow-list read from the environment variable ADMIN_IDS: the
\* configuration of the model names user 12 only.
ADMIN_IDS == {12}

is_admin(user_id) == user_id \in ADMIN_IDS

\* -------------------------------------------------------------- text values
TxtStart == <<"s", "t", "a", "r", "t">>
TxtClose == <<"c", "l", "o", "s", "e">>
TxtCancel == <<"c", "a", "n", "c", "e", "l">>
TxtSlashStart == <<"/", "s", "t", "a", "r", "t">>
TxtSlashClose == <<"/", "c", "l", "o", "s", "e">>
TxtSlashCancel == <<"/", "c", "a", "n", "c", "e", "l">>
TxtList == <<"l", "i", "s", "t">>
TxtS == <<"S">>
TxtH == <<"h">>
TxtP == <<"p">>
Txt25575 == <<"2", "5", "5", "7", "5">>
Txt70000 == <<"7", "0", "0", "0", "0">>
TxtAbc == <<"a", "b", "c">>

PrefixSelectServer == <<"s", "e", "l", "e", "c", "t", "_", "s", "e", "r", "v", "e", "r", "_">>
PrefixOpenConsole == <<"o", "p", "e", "n", "_", "c", "o", "n", "s", "o", "l", "e", "_">>
PrefixDeleteServer == <<"d", "e", "l", "e", "t", "e", "_", "s", "e", "r", "v", "e", "r", "_">>
PrefixServerStatus == <<"s", "e", "r", "v", "e", "r", "_", "s", "t", "a", "t", "u", "s", "_">>
PrefixServerPlayers == <<"s", "e", "r", "v", "e", "r", "_", "p", "l", "a", "y", "e", "r", "s", "_">>
PrefixServerCmd == <<"s", "e", "r", "v", "e", "r", "_", "c", "m", "d", "_">>
DataBackToServers == <<"b", "a", "c", "k", "_", "t", "o", "_", "s", "e", "r", "v", "e", "r", "s">>
DataAddServer == <<"a", "d", "d", "_", "s", "e", "r", "v", "e", "r">>
DataCancelAdd == <<"c", "a", "n", "c", "e", "l", "_", "a", "d", "d">>

\* ------------------------------------------------- Python built-ins on texts
Digits == <<"0", "1", "2", "3", "4", "5", "6", "7", "8", "9">>

IsDigit(c) == \E i \in 1..10 : Digits[i] = c

DigitVal(c) == (CHOOSE i \in 1..10 : Digits[i] = c) - 1

\* str(n) of an integer: its decimal rendering.
RECURSIVE str(_)
str(n) ==
    IF n < 0 THEN <<"-">> \o str(0 - n)
    ELSE IF n < 10 THEN <<Digits[n + 1]>>
    ELSE str(n \div 10) \o <<Digits[(n % 10) + 1]>>

RECURSIVE lstrip(_)
lstrip(t) == IF t # <<>> /\ Head(t) = " " THEN lstrip(Tail(t)) ELSE t

RECURSIVE rstrip(_)
rstrip(t) ==
    IF t # <<>> /\ t[Len(t)] = " " THEN rstrip(SubSeq(t, 1, Len(t) - 1)) ELSE t

strip(t) == rstrip(lstrip(t))

\* The digit part of an integer literal: digits, with single underscores
\* allowed between digits.
ValidDigits(b) ==
    /\ b # <<>>
    /\ IsDigit(b[1])
    /\ IsDigit(b[Len(b)])
    /\ \A i \in 1..Len(b) : IsDigit(b[i]) \/ b[i] = "_"
    /\ \A i \in 1..(Len(b) - 1) : ~(b[i] = "_" /\ b[i + 1] = "_")

RECURSIVE DigitsValue(_, _)
DigitsValue(b, acc) ==
    IF b = <<>> THEN acc
    ELSE IF Head(b) = "_" THEN DigitsValue(Tail(b), acc)
    ELSE DigitsValue(Tail(b), acc * 10 + DigitVal(Head(b)))

\* int(text): ok is FALSE where Python raises ValueError.  Surrounding
\* whitespace is stripped and one sign is accepted; there is no range check.
int(t) ==
    LET s == strip(t)
        signed == s # <<>> /\ Head(s) \in {"+", "-"}
        body == IF signed THEN Tail(s) ELSE s
        magnitude == DigitsValue(body, 0)
    IN  IF ValidDigits(body)
        THEN [ok |-> TRUE,
              val |-> IF signed /\ Head(s) = "-" THEN 0 - magnitude ELSE magnitude]
        ELSE [ok |-> FALSE, val |-> 0]

\* data.startswith(prefix)
startswith(d, p) == Len(d) >= Len(p) /\ SubSeq(d, 1, Len(p)) = p

\* data.split("_")[-1]: what follows the last underscore.
split_last(d) ==
    LET I == {i \in 1..Len(d) : d[i] = "_"}
    IN  IF I = {} THEN d
        ELSE SubSeq(d, (CHOOSE i \in I : \A j \in I : j <= i) + 1, Len(d))

\* The first whitespace-delimited token of a message text.
FirstToken(t) ==
    LET s == lstrip(t)
        I == {i \in 1..Len(s) : s[i] = " "}
    IN  IF I = {} THEN s
        ELSE SubSeq(s, 1, (CHOOSE i \in I : \A j \in I : i <= j) - 1)

\* The filter Command(name): the first token of the text is "/name".
\* (The texts of the model carry no "@bot" mention.)
Command(t, name) == FirstToken(t) = <<"/">> \o name

\* ---------------------------------------------------------------- dicts
EmptyDict == [k \in {} |-> 0]

DictSet(d, k, v) == [x \in (DOMAIN d) \cup {k} |-> IF x = k THEN v ELSE d[x]]

DictDel(d, k) == [x \in (DOMAIN d) \ {k} |-> d[x]]

\* ------------------------------------------------------------ FSM states
StateNone == "None"
waiting_for_name == "AddServer:waiting_for_name"
waiting_for_host == "AddServer:waiting_for_host"
waiting_for_port == "AddServer:waiting_for_port"
waiting_for_password == "AddServer:waiting_for_password"
waiting_for_command == "CommandState:waiting_for_command"
console_mode == "CommandState:console_mode"

AddServer ==
    {waiting_for_name, waiting_for_host, waiting_for_port, waiting_for_password}

CommandState == {waiting_for_command, console_mode}

\* ------------------------------------------------------------- variables
VARIABLES
    fsm_state,      \* MemoryStorage: user -> state (StateNone is Idle)
    fsm_data,       \* MemoryStorage: user -> dict of scratch fields
    servers_file,   \* data/servers.json: whether it exists, and its content
    out,            \* what the last handler did: replies and remote calls
    tasks           \* the handler coroutines in flight on the event loop

vars == <<fsm_state, fsm_data, servers_file, out, tasks>>

\* --------------------------------------------------------------- tasks
TaskIds == 1..MaxTasks

\* A slot of the event loop with no coroutine in it.
NoTask ==
    [user |-> 0, handler |-> "none", input |-> <<>>, pc |-> "none",
     data |-> EmptyDict, user_servers |-> EmptyDict]

\* ------------------------------------------------------------- registry
load_servers ==
    IF servers_file.exists THEN servers_file.content ELSE EmptyDict

get_user_servers(user_id) ==
    LET servers == load_servers
    IN  IF str(user_id) \in DOMAIN servers THEN servers[str(user_id)] ELSE EmptyDict

\* Variant of save_user_servers that writes the entry of this user into an
\* empty mapping instead of the loaded one.
save_user_servers_alone(user_id, user_servers) ==
    [exists |-> TRUE, content |-> DictSet(EmptyDict, str(user_id), user_servers)]

\* The file content after save_user_servers(user_id, user_servers).
save_user_servers(user_id, user_servers) ==
    [exists |-> TRUE, content |-> DictSet(load_servers, str(user_id), user_servers)]

\* ---------------------------------------------------------- remote console
RconOutcomes == {"ok", "fail"}

\* Variant of execute_rcon_command that swallows the exception.
execute_rcon_command_silent(server, command, outcome) == "response"

\* The string execute_rcon_command returns: the server's response, or the
\* text of the caught exception.
execute_rcon_command(server, command, outcome) ==
    IF outcome = "ok" THEN "response" ELSE "Error executing command"

RconCall(server, command, outcome) ==
    [server |-> server, command |-> command,
     result |-> execute_rcon_command(server, command, outcome)]

\* ------------------------------------------------------------- outputs
Reply(via, msg) == [via |-> via, msg |-> msg]

\* What one run of a handler did: the user and the text or callback data of
\* the event, the handler the dispatcher chose, the messages sent back, the
\* remote calls made, and the exception that escaped, if any.
Out(u, handler, input, replies, rcon, error) ==
    [user |-> u, handler |-> handler, input |-> input, replies |-> replies,
     rcon |-> rcon, error |-> error]

ServersMenu == Reply("answer", "servers_menu")
NotFoundToast == Reply("callback_answer", "not_found")

\* ------------------------------------------------------------- dispatch
\* Variant of MessageRoute with cancel_command registered after the state
\* handlers.
MessageRoute_cancel_last(u, t) ==
    IF Command(t, TxtStart) THEN "cmd_start"
    ELSE IF Command(t, TxtClose) THEN "close_console"
    ELSE IF fsm_state[u] = console_mode THEN "handle_console_command"
    ELSE IF fsm_state[u] = waiting_for_command THEN "handle_command"
    ELSE IF fsm_state[u] = waiting_for_name THEN "process_server_name"
    ELSE IF fsm_state[u] = waiting_for_host THEN "process_server_host"
    ELSE IF fsm_state[u] = waiting_for_port THEN "process_server_port"
    ELSE IF fsm_state[u] = waiting_for_password THEN "process_server_password"
    ELSE IF Command(t, TxtCancel) THEN "cancel_command"
    ELSE "unhandled"

\* The message handlers in registration order; the first whose filter
\* accepts the message runs, the others are not tried.
MessageRoute(u, t) ==
    IF Command(t, TxtStart) THEN "cmd_start"
    ELSE IF Command(t, TxtClose) THEN "close_console"
    ELSE IF fsm_state[u] = console_mode THEN "handle_console_command"
    ELSE IF Command(t, TxtCancel) THEN "cancel_command"
    ELSE IF fsm_state[u] = waiting_for_command THEN "handle_command"
    ELSE IF fsm_state[u] = waiting_for_name THEN "process_server_name"
    ELSE IF fsm_state[u] = waiting_for_host THEN "process_server_host"
    ELSE IF fsm_state[u] = waiting_for_port THEN "process_server_port"
    ELSE IF fsm_state[u] = waiting_for_password THEN "process_server_password"
    ELSE "unhandled"

\* The callback-query handlers in registration order.
CallbackRoute(d) ==
    IF startswith(d, PrefixSelectServer) THEN "select_server"
    ELSE IF d = DataBackToServers THEN "back_to_servers"
    ELSE IF startswith(d, PrefixOpenConsole) THEN "open_console"
    ELSE IF startswith(d, PrefixDeleteServer) THEN "delete_server"
    ELSE IF startswith(d, PrefixServerStatus) THEN "server_status"
    ELSE IF startswith(d, PrefixServerPlayers) THEN "server_players"
    ELSE IF startswith(d, PrefixServerCmd) THEN "server_cmd"
    ELSE IF d = DataAddServer THEN "add_server_start"
    ELSE IF d = DataCancelAdd THEN "cancel_add_server"
    ELSE "unhandled"

\* user_servers.get(server_id) followed by "if not server": a stored profile
\* is a non-empty dict, so the test fails exactly for a missing key.
server_found(user_servers, server_id) == server_id \in DOMAIN user_servers

\* data.get('server_id') followed by "if not server_id".
server_id_set(data) == "server_id" \in DOMAIN data /\ data["server_id"] # <<>>

\* --------------------------------------------------- FSMContext operations
\* state.clear(): the state becomes None and the data the empty dict.
clear_state(u) == [fsm_state EXCEPT ![u] = StateNone]

clear_data(u) == [fsm_data EXCEPT ![u] = EmptyDict]

set_state(u, st) == [fsm_state EXCEPT ![u] = st]

update_data(u, k, v) == [fsm_data EXCEPT ![u] = DictSet(fsm_data[u], k, v)]

\* ------------------------------------------------------- message handlers
cmd_start(u, t) ==
    /\ MessageRoute(u, t) = "cmd_start"
    /\ out' = Out(u, "cmd_start", t, <<Reply("answer", "welcome")>>, <<>>, "none")
    /\ UNCHANGED <<fsm_state, fsm_data, servers_file>>

\* Variant of close_console without the test of the current state.
close_console_unguarded(u, t) ==
    /\ MessageRoute(u, t) = "close_console"
    /\ fsm_state' = clear_state(u)
    /\ fsm_data' = clear_data(u)
    /\ out' = Out(u, "close_console", t,
                  <<Reply("answer", "console_closed"), ServersMenu>>, <<>>, "none")
    /\ UNCHANGED servers_file

close_console(u, t) ==
    /\ MessageRoute(u, t) = "close_console"
    /\ IF fsm_state[u] # console_mode
       THEN /\ out' = Out(u, "close_console", t, <<>>, <<>>, "none")
            /\ UNCHANGED <<fsm_state, fsm_data>>
       ELSE /\ fsm_state' = clear_state(u)
            /\ fsm_data' = clear_data(u)
            /\ out' = Out(u, "close_console", t,
                          <<Reply("answer", "console_closed"), ServersMenu>>,
                          <<>>, "none")
    /\ UNCHANGED servers_file

\* Variant of handle_console_command that clears the state after the command,
\* as handle_command does.
handle_console_command_clearing(u, t, outcome) ==
    /\ MessageRoute(u, t) = "handle_console_command"
    /\ LET data == fsm_data[u]
           user_servers == get_user_servers(u)
       IN  IF ~server_id_set(data)
           THEN /\ out' = Out(u, "handle_console_command", t,
                              <<Reply("answer", "no_server_selected")>>, <<>>, "none")
                /\ UNCHANGED <<fsm_state, fsm_data>>
           ELSE IF ~server_found(user_servers, data["server_id"])
           THEN /\ out' = Out(u, "handle_console_command", t,
                              <<Reply("answer", "not_found")>>, <<>>, "none")
                /\ UNCHANGED <<fsm_state, fsm_data>>
           ELSE /\ out' = Out(u, "handle_console_command", t,
                              <<Reply("answer", "server_response")>>,
                              <<RconCall(user_servers[data["server_id"]], t, outcome)>>,
                              "none")
                /\ fsm_state' = clear_state(u)
                /\ fsm_data' = clear_data(u)
    /\ UNCHANGED servers_file

handle_console_command(u, t, outcome) ==
    /\ MessageRoute(u, t) = "handle_console_command"
    /\ LET data == fsm_data[u]
           user_servers == get_user_servers(u)
       IN  IF ~server_id_set(data)
           THEN out' = Out(u, "handle_console_command", t,
                           <<Reply("answer", "no_server_selected")>>, <<>>, "none")
           ELSE IF ~server_found(user_servers, data["server_id"])
           THEN out' = Out(u, "handle_console_command", t,
                           <<Reply("answer", "not_found")>>, <<>>, "none")
           ELSE out' = Out(u, "handle_console_command", t,
                           <<Reply("answer", "server_response")>>,
                           <<RconCall(user_servers[data["server_id"]], t, outcome)>>,
                           "none")
    /\ UNCHANGED <<fsm_state, fsm_data, servers_file>>

cancel_command(u, t) ==
    /\ MessageRoute(u, t) = "cancel_command"
    /\ fsm_state' = clear_state(u)
    /\ fsm_data' = clear_data(u)
    /\ out' = Out(u, "cancel_command", t,
                  <<Reply("answer", "cancelled"), ServersMenu>>, <<>>, "none")
    /\ UNCHANGED servers_file

handle_command(u, t, outcome) ==
    /\ MessageRoute(u, t) = "handle_command"
    /\ LET data == fsm_data[u]
           user_servers == get_user_servers(u)
       IN  IF ~server_id_set(data)
           THEN /\ out' = Out(u, "handle_command", t,
                              <<Reply("answer", "no_server_selected")>>, <<>>, "none")
                /\ UNCHANGED <<fsm_state, fsm_data>>
           ELSE IF ~server_found(user_servers, data["server_id"])
           THEN /\ out' = Out(u, "handle_command", t,
                              <<Reply("answer", "not_found")>>, <<>>, "none")
                /\ UNCHANGED <<fsm_state, fsm_data>>
           ELSE /\ out' = Out(u, "handle_command", t,
                              <<Reply("answer", "server_response"), ServersMenu>>,
                              <<RconCall(user_servers[data["server_id"]], t, outcome)>>,
                              "none")
                /\ fsm_state' = clear_state(u)
                /\ fsm_data' = clear_data(u)
    /\ UNCHANGED servers_file

process_server_name(u, t) ==
    /\ MessageRoute(u, t) = "process_server_name"
    /\ fsm_data' = update_data(u, "name", t)
    /\ fsm_state' = set_state(u, waiting_for_host)
    /\ out' = Out(u, "process_server_name", t, <<Reply("answer", "ask_host")>>,
                  <<>>, "none")
    /\ UNCHANGED servers_file

\* Variant of process_server_host that moves to the port step without
\* storing the host.
process_server_host_forgetful(u, t) ==
    /\ MessageRoute(u, t) = "process_server_host"
    /\ fsm_state' = set_state(u, waiting_for_port)
    /\ out' = Out(u, "process_server_host", t, <<Reply("answer", "ask_port")>>,
                  <<>>, "none")
    /\ UNCHANGED <<fsm_data, servers_file>>

process_server_host(u, t) ==
    /\ MessageRoute(u, t) = "process_server_host"
    /\ fsm_data' = update_data(u, "host", t)
    /\ fsm_state' = set_state(u, waiting_for_port)
    /\ out' = Out(u, "process_server_host", t, <<Reply("answer", "ask_port")>>,
                  <<>>, "none")
    /\ UNCHANGED servers_file

\* Variant of process_server_port that moves to the password step after the
\* re-prompt as well.
process_server_port_advancing(u, t) ==
    /\ MessageRoute(u, t) = "process_server_port"
    /\ LET port == int(t)
       IN  IF port.ok
           THEN /\ fsm_data' = update_data(u, "port", port.val)
                /\ fsm_state' = set_state(u, waiting_for_password)
                /\ out' = Out(u, "process_server_port", t,
                              <<Reply("answer", "ask_password")>>, <<>>, "none")
           ELSE /\ out' = Out(u, "process_server_port", t,
                              <<Reply("answer", "ask_port_again")>>, <<>>, "none")
                /\ fsm_state' = set_state(u, waiting_for_password)
                /\ UNCHANGED fsm_data
    /\ UNCHANGED servers_file

process_server_port(u, t) ==
    /\ MessageRoute(u, t) = "process_server_port"
    /\ LET port == int(t)
       IN  IF port.ok
           THEN /\ fsm_data' = update_data(u, "port", port.val)
                /\ fsm_state' = set_state(u, waiting_for_password)
                /\ out' = Out(u, "process_server_port", t,
                              <<Reply("answer", "ask_password")>>, <<>>, "none")
           ELSE /\ out' = Out(u, "process_server_port", t,
                              <<Reply("answer", "ask_port_again")>>, <<>>, "none")
                /\ UNCHANGED <<fsm_state, fsm_data>>
    /\ UNCHANGED servers_file

\* server_id = str(len(user_servers) + 1)
new_server_id(user_servers) == str(Cardinality(DOMAIN user_servers) + 1)

\* Variant of new_server with the name and the host exchanged.
new_server_swapped(data, text) ==
    [name |-> data["host"], host |-> data["name"], port |-> data["port"],
     password |-> text]

\* The profile built from the scratch data and the password text.
new_server(data, text) ==
    [name |-> data["name"], host |-> data["host"], port |-> data["port"],
     password |-> text]

process_server_password(u, t) ==
    /\ MessageRoute(u, t) = "process_server_password"
    /\ LET data == fsm_data[u]
           user_servers == get_user_servers(u)
           server_id == new_server_id(user_servers)
       IN  IF ~({"name", "host", "port"} \subseteq DOMAIN data)
           THEN /\ out' = Out(u, "process_server_password", t, <<>>, <<>>, "KeyError")
                /\ UNCHANGED <<fsm_state, fsm_data, servers_file>>
           ELSE /\ servers_file' =
                       save_user_servers(u, DictSet(user_servers, server_id,
                                                    new_server(data, t)))
                /\ fsm_state' = clear_state(u)
                /\ fsm_data' = clear_data(u)
                /\ out' = Out(u, "process_server_password", t,
                              <<Reply("answer", "server_added")>>, <<>>, "none")

\* A message no handler accepts is dropped by the dispatcher.
unhandled_message(u, t) ==
    /\ MessageRoute(u, t) = "unhandled"
    /\ out' = Out(u, "unhandled", t, <<>>, <<>>, "none")
    /\ UNCHANGED <<fsm_state, fsm_data, servers_file>>

\* ------------------------------------------------------- callback handlers
select_server(u, d) ==
    /\ CallbackRoute(d) = "select_server"
    /\ LET server_id == split_last(d)
           user_servers == get_user_servers(u)
       IN  IF ~server_found(user_servers, server_id)
           THEN out' = Out(u, "select_server", d, <<NotFoundToast>>, <<>>, "none")
           ELSE out' = Out(u, "select_server", d,
                           <<Reply("edit_text", "server_menu")>>, <<>>, "none")
    /\ UNCHANGED <<fsm_state, fsm_data, servers_file>>

back_to_servers(u, d) ==
    /\ CallbackRoute(d) = "back_to_servers"
    /\ out' = Out(u, "back_to_servers", d, <<Reply("edit_text", "servers_menu")>>,
                  <<>>, "none")
    /\ UNCHANGED <<fsm_state, fsm_data, servers_file>>

\* Variant of open_console that enters the console before looking the
\* profile up.
open_console_unchecked(u, d) ==
    /\ CallbackRoute(d) = "open_console"
    /\ LET server_id == split_last(d)
           user_servers == get_user_servers(u)
       IN  /\ fsm_state' = set_state(u, console_mode)
           /\ fsm_data' = update_data(u, "server_id", server_id)
           /\ IF ~server_found(user_servers, server_id)
              THEN out' = Out(u, "open_console", d, <<NotFoundToast>>, <<>>, "none")
              ELSE out' = Out(u, "open_console", d,
                              <<Reply("edit_text", "console_opened")>>, <<>>, "none")
    /\ UNCHANGED servers_file

open_console(u, d) ==
    /\ CallbackRoute(d) = "open_console"
    /\ LET server_id == split_last(d)
           user_servers == get_user_servers(u)
       IN  IF ~server_found(user_servers, server_id)
           THEN /\ out' = Out(u, "open_console", d, <<NotFoundToast>>, <<>>, "none")
                /\ UNCHANGED <<fsm_state, fsm_data>>
           ELSE /\ fsm_state' = set_state(u, console_mode)
                /\ fsm_data' = update_data(u, "server_id", server_id)
                /\ out' = Out(u, "open_console", d,
                              <<Reply("edit_text", "console_opened")>>, <<>>, "none")
    /\ UNCHANGED servers_file

delete_server(u, d) ==
    /\ CallbackRoute(d) = "delete_server"
    /\ LET server_id == split_last(d)
           user_servers == get_user_servers(u)
       IN  IF ~server_found(user_servers, server_id)
           THEN /\ out' = Out(u, "delete_server", d, <<NotFoundToast>>, <<>>, "none")
                /\ UNCHANGED servers_file
           ELSE /\ servers_file' =
                       save_user_servers(u, DictDel(user_servers, server_id))
                /\ out' = Out(u, "delete_server", d,
                              <<Reply("callback_answer", "server_deleted"),
                                Reply("edit_text", "servers_menu")>>, <<>>, "none")
    /\ UNCHANGED <<fsm_state, fsm_data>>

server_status(u, d, outcome) ==
    /\ CallbackRoute(d) = "server_status"
    /\ LET server_id == split_last(d)
           user_servers == get_user_servers(u)
       IN  IF ~server_found(user_servers, server_id)
           THEN out' = Out(u, "server_status", d, <<NotFoundToast>>, <<>>, "none")
           ELSE out' = Out(u, "server_status", d,
                           <<Reply("edit_text", "server_status")>>,
                           <<RconCall(user_servers[server_id], TxtList, outcome)>>,
                           "none")
    /\ UNCHANGED <<fsm_state, fsm_data, servers_file>>

server_players(u, d, outcome) ==
    /\ CallbackRoute(d) = "server_players"
    /\ LET server_id == split_last(d)
           user_servers == get_user_servers(u)
       IN  IF ~server_found(user_servers, server_id)
           THEN out' = Out(u, "server_players", d, <<NotFoundToast>>, <<>>, "none")
           ELSE out' = Out(u, "server_players", d,
                           <<Reply("edit_text", "players_online")>>,
                           <<RconCall(user_servers[server_id], TxtList, outcome)>>,
                           "none")
    /\ UNCHANGED <<fsm_state, fsm_data, servers_file>>

server_cmd(u, d) ==
    /\ CallbackRoute(d) = "server_cmd"
    /\ LET server_id == split_last(d)
           user_servers == get_user_servers(u)
       IN  IF ~server_found(user_servers, server_id)
           THEN /\ out' = Out(u, "server_cmd", d, <<NotFoundToast>>, <<>>, "none")
                /\ UNCHANGED <<fsm_state, fsm_data>>
           ELSE /\ fsm_state' = set_state(u, waiting_for_command)
                /\ fsm_data' = update_data(u, "server_id", server_id)
                /\ out' = Out(u, "server_cmd", d,
                              <<Reply("edit_text", "ask_command")>>, <<>>, "none")
    /\ UNCHANGED servers_file

add_server_start(u, d) ==
    /\ CallbackRoute(d) = "add_server_start"
    /\ fsm_state' = set_state(u, waiting_for_name)
    /\ out' = Out(u, "add_server_start", d, <<Reply("edit_text", "ask_name")>>,
                  <<>>, "none")
    /\ UNCHANGED <<fsm_data, servers_file>>

cancel_add_server(u, d) ==
    /\ CallbackRoute(d) = "cancel_add_server"
    /\ fsm_state' = clear_state(u)
    /\ fsm_data' = clear_data(u)
    /\ out' = Out(u, "cancel_add_server", d, <<Reply("edit_text", "servers_menu")>>,
                  <<>>, "none")
    /\ UNCHANGED servers_file

\* ------------------------------------------------------------ environment
\* The commands a user sends, in any state.
CommandTexts == {TxtSlashStart, TxtSlashClose, TxtSlashCancel}

\* The texts a user answers the prompts of the wizard with.
NameTexts == {TxtS}

HostTexts == {TxtH}

PortTexts == {Txt25575, Txt70000, TxtAbc}

PasswordTexts == {TxtP}

\* The texts a user types at a command prompt or in the console.
ConsoleTexts == {TxtList}

\* The texts a user types with no flow active.
IdleTexts == {TxtAbc}

FreeTexts ==
    NameTexts \cup HostTexts \cup PortTexts \cup PasswordTexts
    \cup ConsoleTexts \cup IdleTexts

Texts == CommandTexts \cup FreeTexts

\* The users who send events; the other users only own state.
Actors == {7}

\* The texts the environment offers to user u in the current state.
TextsFor(u) ==
    CommandTexts \cup
    (CASE fsm_state[u] = waiting_for_name -> NameTexts
       [] fsm_state[u] = waiting_for_host -> HostTexts
       [] fsm_state[u] = waiting_for_port -> PortTexts
       [] fsm_state[u] = waiting_for_password -> PasswordTexts
       [] fsm_state[u] \in CommandState -> ConsoleTexts
       [] OTHER -> IdleTexts)

\* The profile ids buttons carry: every id the registry can have assigned.
ButtonIds == {str(n) : n \in 1..MaxServers}

CallbackDatas ==
    {DataBackToServers, DataAddServer, DataCancelAdd}
    \cup {p \o id : p \in {PrefixSelectServer, PrefixOpenConsole,
                           PrefixDeleteServer, PrefixServerStatus,
                           PrefixServerPlayers, PrefixServerCmd},
                    id \in ButtonIds}

Init ==
    /\ fsm_state = [u \in Users |-> StateNone]
    /\ fsm_data = [u \in Users |-> EmptyDict]
    /\ servers_file = [exists |-> FALSE, content |-> EmptyDict]
    /\ out = Out(0, "none", <<>>, <<>>, <<>>, "none")
    /\ tasks = [k \in TaskIds |-> NoTask]

\* The environment offers text t to user u in the current state.
Offered(u, t) == t \in TextsFor(u)

\* The dispatcher feeds a message of user u to the first matching handler,
\* which runs to its end before the next event is taken.
\* The wizard is completed only while the registry is below MaxServers.
MessageEvent(u, t) ==
    \/ Offered(u, t) /\ cmd_start(u, t) /\ UNCHANGED tasks
    \/ Offered(u, t) /\ close_console(u, t) /\ UNCHANGED tasks
    \/ Offered(u, t) /\ cancel_command(u, t) /\ UNCHANGED tasks
    \/ Offered(u, t) /\ process_server_name(u, t) /\ UNCHANGED tasks
    \/ Offered(u, t) /\ process_server_host(u, t) /\ UNCHANGED tasks
    \/ Offered(u, t) /\ process_server_port(u, t) /\ UNCHANGED tasks
    \/ /\ Offered(u, t)
       /\ Cardinality(DOMAIN get_user_servers(u)) < MaxServers
       /\ process_server_password(u, t)
       /\ UNCHANGED tasks
    \/ Offered(u, t) /\ unhandled_message(u, t) /\ UNCHANGED tasks
    \/ \E outcome \in RconOutcomes :
          \/ /\ Offered(u, t)
             /\ handle_console_command(u, t, outcome)
             /\ UNCHANGED tasks
          \/ Offered(u, t) /\ handle_command(u, t, outcome) /\ UNCHANGED tasks

\* The dispatcher feeds a button press of user u to the first matching
\* handler, which runs to its end before the next event is taken.
CallbackEvent(u, d) ==
    \/ select_server(u, d) /\ UNCHANGED tasks
    \/ back_to_servers(u, d) /\ UNCHANGED tasks
    \/ open_console(u, d) /\ UNCHANGED tasks
    \/ delete_server(u, d) /\ UNCHANGED tasks
    \/ server_cmd(u, d) /\ UNCHANGED tasks
    \/ add_server_start(u, d) /\ UNCHANGED tasks
    \/ cancel_add_server(u, d) /\ UNCHANGED tasks
    \/ \E outcome \in RconOutcomes :
          \/ server_status(u, d, outcome) /\ UNCHANGED tasks
          \/ server_players(u, d, outcome) /\ UNCHANGED tasks

Next ==
    \E u \in Actors :
        \/ \E t \in Texts : MessageEvent(u, t)
        \/ \E d \in CallbackDatas : CallbackEvent(u, d)

Spec == Init /\ [][Next]_vars

\* =================================================== handlers as coroutines
\* start_polling runs the handler of every update as a task of one event
\* loop.  A coroutine runs alone from one await to the next: the code
\* between two awaits, together with the call the second await makes, is one
\* step, and the coroutines of different events interleave at the awaits.
\* The reply that ends a handler touches no state of the program and is
\* part of the step before it.

\* The event loop can run a step unless a coroutine is inside the remote
\* call: execute_rcon_command has no await, so the loop's only thread stays
\* in MCRcon's socket calls until the call returns.
EventLoopFree == \A k \in TaskIds : tasks[k].pc # "rcon"

\* The dispatcher puts a new coroutine in the lowest free slot.
FreeSlot(k) == tasks[k] = NoTask /\ \A j \in 1..(k - 1) : tasks[j] # NoTask

\* The coroutine of a handler that has not run yet.
Task(u, handler, input) ==
    [user |-> u, handler |-> handler, input |-> input, pc |-> "start",
     data |-> EmptyDict, user_servers |-> EmptyDict]

\* Coroutine k is the next to run, at the given await of the given handler.
Resumes(k, handler, pc) ==
    /\ EventLoopFree
    /\ tasks[k].handler = handler
    /\ tasks[k].pc = pc

\* Coroutine k returned, or an exception ended it.
Finish(k) == [tasks EXCEPT ![k] = NoTask]

\* The wizard completions of user u in flight.
Completing(u) ==
    {k \in TaskIds : /\ tasks[k].user = u
                     /\ tasks[k].handler = "process_server_password"}

\* The dispatcher matches a message of user u against the filters and
\* starts the handler as a task.  The wizard is completed only while the
\* registry, with the completions in flight, is below MaxServers.
feed_message(u, t, k) ==
    /\ EventLoopFree
    /\ FreeSlot(k)
    /\ Offered(u, t)
    /\ MessageRoute(u, t) = "process_server_password"
       => Cardinality(DOMAIN get_user_servers(u)) + Cardinality(Completing(u))
             < MaxServers
    /\ MessageRoute(u, t) \in {"process_server_password", "handle_console_command"}
    /\ tasks' = [tasks EXCEPT ![k] = Task(u, MessageRoute(u, t), t)]
    /\ UNCHANGED <<fsm_state, fsm_data, servers_file, out>>

\* The dispatcher matches a button press of user u against the filters and
\* starts the handler as a task.
feed_callback(u, d, k) ==
    /\ EventLoopFree
    /\ FreeSlot(k)
    /\ CallbackRoute(d) = "delete_server"
    /\ tasks' = [tasks EXCEPT ![k] = Task(u, "delete_server", d)]
    /\ UNCHANGED <<fsm_state, fsm_data, servers_file, out>>

\* process_server_password up to its first await: data = await state.get_data()
process_server_password_get_data(k) ==
    /\ Resumes(k, "process_server_password", "start")
    /\ tasks' = [tasks EXCEPT ![k].data = fsm_data[tasks[k].user],
                              ![k].pc = "save"]
    /\ UNCHANGED <<fsm_state, fsm_data, servers_file, out>>

\* Variant of process_server_password_save with a suspension between the
\* load of the registry and its save.
process_server_password_save_suspended(k) ==
    /\ EventLoopFree
    /\ tasks[k].handler = "process_server_password"
    /\ LET u == tasks[k].user
           data == tasks[k].data
       IN  \/ /\ tasks[k].pc = "save"
              /\ tasks' = [tasks EXCEPT ![k].user_servers = get_user_servers(u),
                                        ![k].pc = "save_loaded"]
              /\ UNCHANGED <<fsm_state, fsm_data, servers_file, out>>
           \/ /\ tasks[k].pc = "save_loaded"
              /\ {"name", "host", "port"} \subseteq DOMAIN data
              /\ LET user_servers == tasks[k].user_servers
                     saved == DictSet(user_servers, new_server_id(user_servers),
                                      new_server(data, tasks[k].input))
                 IN  /\ servers_file' = save_user_servers(u, saved)
                     /\ fsm_state' = clear_state(u)
                     /\ fsm_data' = clear_data(u)
                     /\ out' = Out(u, "process_server_password", tasks[k].input,
                                   <<Reply("answer", "server_added")>>, <<>>, "none")
                     /\ tasks' = Finish(k)

\* process_server_password after its first await: the registry is loaded,
\* the profile is stored under the new id and the registry is saved with no
\* await in between; then await state.clear() and the reply.
process_server_password_save(k) ==
    /\ Resumes(k, "process_server_password", "save")
    /\ LET u == tasks[k].user
           data == tasks[k].data
           user_servers == get_user_servers(u)
           server_id == new_server_id(user_servers)
       IN  IF ~({"name", "host", "port"} \subseteq DOMAIN data)
           THEN /\ out' = Out(u, "process_server_password", tasks[k].input,
                              <<>>, <<>>, "KeyError")
                /\ tasks' = Finish(k)
                /\ UNCHANGED <<fsm_state, fsm_data, servers_file>>
           ELSE LET saved == DictSet(user_servers, server_id,
                                     new_server(data, tasks[k].input))
                IN  /\ servers_file' = save_user_servers(u, saved)
                    /\ fsm_state' = clear_state(u)
                    /\ fsm_data' = clear_data(u)
                    /\ out' = Out(u, "process_server_password", tasks[k].input,
                                  <<Reply("answer", "server_added")>>, <<>>, "none")
                    /\ tasks' = Finish(k)

\* delete_server: the registry is loaded, the profile is deleted and the
\* registry is saved with no await in between; then the replies.
delete_server_save(k) ==
    /\ Resumes(k, "delete_server", "start")
    /\ LET u == tasks[k].user
           d == tasks[k].input
           server_id == split_last(d)
           user_servers == get_user_servers(u)
       IN  IF ~server_found(user_servers, server_id)
           THEN /\ out' = Out(u, "delete_server", d, <<NotFoundToast>>, <<>>, "none")
                /\ tasks' = Finish(k)
                /\ UNCHANGED servers_file
           ELSE LET saved == DictDel(user_servers, server_id)
                IN  /\ servers_file' = save_user_servers(u, saved)
                    /\ out' = Out(u, "delete_server", d,
                                  <<Reply("callback_answer", "server_deleted"),
                                    Reply("edit_text", "servers_menu")>>,
                                  <<>>, "none")
                    /\ tasks' = Finish(k)
    /\ UNCHANGED <<fsm_state, fsm_data>>

\* handle_console_command up to its first await: data = await state.get_data()
handle_console_command_get_data(k) ==
    /\ Resumes(k, "handle_console_command", "start")
    /\ tasks' = [tasks EXCEPT ![k].data = fsm_data[tasks[k].user],
                              ![k].pc = "lookup"]
    /\ UNCHANGED <<fsm_state, fsm_data, servers_file, out>>

\* handle_console_command after state.get_data(): either an answer that
\* ends the handler, or the call of execute_rcon_command, which enters the
\* with block of the remote call.
handle_console_command_call(k) ==
    /\ Resumes(k, "handle_console_command", "lookup")
    /\ LET u == tasks[k].user
           data == tasks[k].data
           user_servers == get_user_servers(u)
       IN  IF ~server_id_set(data)
           THEN /\ out' = Out(u, "handle_console_command", tasks[k].input,
                              <<Reply("answer", "no_server_selected")>>, <<>>, "none")
                /\ tasks' = Finish(k)
           ELSE IF ~server_found(user_servers, data["server_id"])
           THEN /\ out' = Out(u, "handle_console_command", tasks[k].input,
                              <<Reply("answer", "not_found")>>, <<>>, "none")
                /\ tasks' = Finish(k)
           ELSE /\ tasks' = [tasks EXCEPT ![k].user_servers = user_servers,
                                          ![k].pc = "rcon"]
                /\ UNCHANGED out
    /\ UNCHANGED <<fsm_state, fsm_data, servers_file>>

\* What the with block of execute_rcon_command can raise: the connection
\* fails, the server rejects the password, a frame is malformed, the server
\* does not answer in time.
RconFailures == {"cannot_connect", "bad_credential", "malformed_frame", "timeout"}

\* Variant of except_Exception that catches connection errors only.
except_ConnectionError(raised) == raised = "cannot_connect"

\* except Exception as e: every failure of the remote call is an Exception.
except_Exception(raised) == raised \in RconFailures

\* The remote call made by coroutine k, the string execute_rcon_command
\* returned for it, and the exception the string reports ("none": the
\* server answered).
RconReturn(k, raised) ==
    LET server == tasks[k].user_servers[tasks[k].data["server_id"]]
        call == RconCall(server, tasks[k].input,
                         IF raised = "none" THEN "ok" ELSE "fail")
    IN  [server |-> call.server, command |-> call.command,
         result |-> call.result, cause |-> raised]

\* The remote call of coroutine k ends: execute_rcon_command returns the
\* response or the text of the caught exception and the handler goes on to
\* await message.answer(...); an exception that is not caught ends the
\* handler.
execute_rcon_command_return(k, raised) ==
    /\ tasks[k].handler = "handle_console_command"
    /\ tasks[k].pc = "rcon"
    /\ IF raised = "none" \/ except_Exception(raised)
       THEN out' = Out(tasks[k].user, "handle_console_command", tasks[k].input,
                       <<Reply("answer", "server_response")>>,
                       <<RconReturn(k, raised)>>, "none")
       ELSE out' = Out(tasks[k].user, "handle_console_command", tasks[k].input,
                       <<>>, <<>>, raised)
    /\ tasks' = Finish(k)
    /\ UNCHANGED <<fsm_state, fsm_data, servers_file>>

\* ------------------------------------------- environment of the coroutines
\* The texts sent while other handlers are in flight: a password, a console
\* command.
CoroutineTexts == PasswordTexts \cup ConsoleTexts

\* The buttons pressed while other handlers are in flight.
CoroutineDatas == {PrefixDeleteServer \o id : id \in ButtonIds}

\* The profile the wizard stores for the answers "S", "h", the port, "p".
StoredProfile(port) ==
    new_server([name |-> TxtS, host |-> TxtH, port |-> port], TxtP)

\* The registries a user starts with: one profile, or two.
StartRegistries ==
    {DictSet(EmptyDict, str(1), StoredProfile(25575)),
     DictSet(DictSet(EmptyDict, str(1), StoredProfile(25575)),
             str(2), StoredProfile(70000))}

\* The file that holds the given registry of every user.
StartFile(registry) ==
    [exists |-> TRUE,
     content |-> [key \in {str(u) : u \in Users} |->
                     registry[CHOOSE u \in Users : str(u) = key]]]

\* A session at the password step of the wizard.
AtPasswordStep ==
    [state |-> waiting_for_password,
     data |-> [name |-> TxtS, host |-> TxtH, port |-> 25575]]

\* A session in the console of profile "1".
InConsole == [state |-> console_mode, data |-> [server_id |-> str(1)]]

\* The coroutines that change the registry start from a state the handlers
\* reach one event at a time: no profile is stored yet, every user is at
\* the password step of the wizard, and no handler is in flight.
InitTasks ==
    /\ fsm_state = [u \in Users |-> AtPasswordStep.state]
    /\ fsm_data = [u \in Users |-> AtPasswordStep.data]
    /\ servers_file = [exists |-> FALSE, content |-> EmptyDict]
    /\ out = Out(0, "none", <<>>, <<>>, <<>>, "none")
    /\ tasks = [k \in TaskIds |-> NoTask]

\* Wizard completions and deletes of all users, interleaved at the awaits.
NextTasks ==
    \/ \E u \in Users, t \in CoroutineTexts, k \in TaskIds : feed_message(u, t, k)
    \/ \E u \in Users, d \in CoroutineDatas, k \in TaskIds : feed_callback(u, d, k)
    \/ \E k \in TaskIds :
          \/ process_server_password_get_data(k)
          \/ process_server_password_save(k)
          \/ delete_server_save(k)

SpecTasks == InitTasks /\ [][NextTasks]_vars

\* The coroutines that make remote calls start from states the handlers
\* reach one event at a time: every user holds a registry and is in the
\* console of profile "1", and no handler is in flight.
InitConsole ==
    /\ fsm_state = [u \in Users |-> InConsole.state]
    /\ fsm_data = [u \in Users |-> InConsole.data]
    /\ \E registry \in [Users -> StartRegistries] :
          servers_file = StartFile(registry)
    /\ out = Out(0, "none", <<>>, <<>>, <<>>, "none")
    /\ tasks = [k \in TaskIds |-> NoTask]

\* Console commands and deletes of all users, interleaved at the awaits.
NextConsole ==
    \/ \E u \in Users, t \in CoroutineTexts, k \in TaskIds : feed_message(u, t, k)
    \/ \E u \in Users, d \in CoroutineDatas, k \in TaskIds : feed_callback(u, d, k)
    \/ \E k \in TaskIds :
          \/ handle_console_command_get_data(k)
          \/ handle_console_command_call(k)
          \/ delete_server_save(k)
          \/ \E raised \in {"none"} \cup RconFailures :
                execute_rcon_command_return(k, raised)

SpecConsole == InitConsole /\ [][NextConsole]_vars

\* ======================================================== properties
\* Every step is one event: out' names its user, its text or callback data
\* and the handler the dispatcher chose, so a property reads the event of a
\* step from out' and compares the state before and after it.

\* The port range of a connection profile.
ValidPorts == 1..65535

\* The text of the exception, as execute_rcon_command returns it.
ErrorText == "Error executing command"

\* A text the dispatcher treats as one of the registered commands.
RegisteredCommand(t) ==
    Command(t, TxtStart) \/ Command(t, TxtClose) \/ Command(t, TxtCancel)

MessageHandlers ==
    {"cmd_start", "close_console", "handle_console_command", "cancel_command",
     "handle_command", "process_server_name", "process_server_host",
     "process_server_port", "process_server_password", "unhandled"}

\* The buttons that carry a profile id.
ProfileButtons ==
    {"select_server", "server_status", "server_players", "server_cmd",
     "open_console", "delete_server"}

CallbackHandlers ==
    ProfileButtons \cup {"back_to_servers", "add_server_start", "cancel_add_server"}

\* The step is a message of user u with text t.
MessageStep(u, t) ==
    out'.user = u /\ out'.input = t /\ out'.handler \in MessageHandlers

\* The step is a button press of user u with callback data d.
CallbackStep(u, d) ==
    out'.user = u /\ out'.input = d /\ out'.handler \in CallbackHandlers

\* C1: the add wizard, step by step.  From Idle the add-server button opens
\* the name step with empty scratch data; the name text, the host text and a
\* port text that spells an integer in 1..65535 are stored in turn, each
\* moving to the next step; the password text then stores, under the new id,
\* exactly the profile {name, host, port as integer, password}, and leaves
\* the user Idle with the scratch data cleared.
C1_WizardStoresProfile ==
    [][\A u \in Users :
          LET t == out'.input
              data == fsm_data[u]
          IN  /\ CallbackStep(u, DataAddServer) /\ fsm_state[u] = StateNone
                 => /\ fsm_state'[u] = waiting_for_name
                    /\ fsm_data'[u] = EmptyDict
                    /\ UNCHANGED servers_file
              /\ MessageStep(u, t) /\ ~RegisteredCommand(t)
                 => /\ fsm_state[u] = waiting_for_name /\ data = EmptyDict
                       => /\ fsm_state'[u] = waiting_for_host
                          /\ fsm_data'[u] = [name |-> t]
                          /\ UNCHANGED servers_file
                    /\ fsm_state[u] = waiting_for_host /\ DOMAIN data = {"name"}
                       => /\ fsm_state'[u] = waiting_for_port
                          /\ fsm_data'[u] = [name |-> data["name"], host |-> t]
                          /\ UNCHANGED servers_file
                    /\ /\ fsm_state[u] = waiting_for_port
                       /\ DOMAIN data = {"name", "host"}
                       /\ int(t).ok /\ int(t).val \in ValidPorts
                       => /\ fsm_state'[u] = waiting_for_password
                          /\ fsm_data'[u] = [name |-> data["name"],
                                             host |-> data["host"],
                                             port |-> int(t).val]
                          /\ (t = Txt25575 => fsm_data'[u]["port"] = 25575)
                          /\ UNCHANGED servers_file
                    /\ /\ fsm_state[u] = waiting_for_password
                       /\ DOMAIN data = {"name", "host", "port"}
                       /\ data["port"] \in ValidPorts
                       => LET id == new_server_id(get_user_servers(u))
                          IN  /\ out'.error = "none"
                              /\ fsm_state'[u] = StateNone
                              /\ fsm_data'[u] = EmptyDict
                              /\ id \in DOMAIN get_user_servers(u)'
                              /\ get_user_servers(u)'[id] =
                                    [name |-> data["name"], host |-> data["host"],
                                     port |-> data["port"], password |-> t]
      ]_vars

\* C1 witness: a user has just completed the wizard and the registry holds
\* the profile {S, h, 25575, p}.
C1_Witness ==
    /\ out.handler = "process_server_password"
    /\ out.error = "none"
    /\ fsm_state[out.user] = StateNone
    /\ fsm_data[out.user] = EmptyDict
    /\ \E id \in DOMAIN get_user_servers(out.user) :
          get_user_servers(out.user)[id] =
             [name |-> TxtS, host |-> TxtH, port |-> 25575, password |-> TxtP]

\* C2: at the port step a text that is no command and does not spell an
\* integer reaches the port handler, which answers with the re-prompt and
\* raises nothing; the state stays at the port step and the scratch data
\* and the registry are unchanged.
C2_NonIntegerPortReprompts ==
    [][\A u \in Users :
          LET t == out'.input
          IN  /\ MessageStep(u, t)
              /\ fsm_state[u] = waiting_for_port
              /\ ~RegisteredCommand(t)
              /\ (~int(t).ok \/ t = TxtAbc)
              => /\ out'.handler = "process_server_port"
                 /\ out'.replies = <<Reply("answer", "ask_port_again")>>
                 /\ out'.error = "none"
                 /\ fsm_state'[u] = waiting_for_port
                 /\ fsm_data'[u] = fsm_data[u]
                 /\ UNCHANGED servers_file
      ]_vars

\* C2 witness: the port handler has just re-prompted a user who had given a
\* name and a host.
C2_Witness ==
    /\ out.handler = "process_server_port"
    /\ out.input = TxtAbc
    /\ out.replies = <<Reply("answer", "ask_port_again")>>
    /\ fsm_state[out.user] = waiting_for_port
    /\ {"name", "host"} \subseteq DOMAIN fsm_data[out.user]

\* C3: at the port step a text that spells an integer outside 1..65535 is
\* rejected (the state stays at the port step and the scratch data are as
\* before), and the wizard moves to the password step only for an integer
\* in 1..65535.
C3_OutOfRangePortRejected ==
    [][\A u \in Users :
          LET t == out'.input
          IN  /\ MessageStep(u, t)
              /\ fsm_state[u] = waiting_for_port
              /\ ~RegisteredCommand(t)
              => IF int(t).ok /\ int(t).val \in ValidPorts
                 THEN fsm_state'[u] = waiting_for_password
                 ELSE /\ fsm_state'[u] = waiting_for_port
                      /\ fsm_data'[u] = fsm_data[u]
      ]_vars

\* C4 (as stated): in the console every message other than the close
\* command is executed as a remote command against the console's profile,
\* and the state stays the console of the same profile.
C4_ConsoleExecutesEveryMessage ==
    [][\A u \in Users :
          LET t == out'.input
              X == fsm_data[u]["server_id"]
              reg == get_user_servers(u)
          IN  /\ MessageStep(u, t)
              /\ fsm_state[u] = console_mode
              /\ ~Command(t, TxtClose)
              => /\ fsm_state'[u] = console_mode
                 /\ fsm_data'[u]["server_id"] = X
                 /\ Len(out'.rcon) = 1
                 /\ out'.rcon[1].command = t
                 /\ X \in DOMAIN reg
                 /\ out'.rcon[1].server = reg[X]
      ]_vars

\* C4 (amended): in the console every message other than the close command
\* leaves the state the console of the same profile; every message other
\* than the close and the start command is executed as a remote command
\* against the profile stored under the console's id when the registry
\* still has that id, whether the command succeeds or fails, and otherwise
\* nothing is executed.
C4_ConsoleSticky ==
    [][\A u \in Users :
          LET t == out'.input
              X == fsm_data[u]["server_id"]
              reg == get_user_servers(u)
          IN  /\ MessageStep(u, t)
              /\ fsm_state[u] = console_mode
              /\ ~Command(t, TxtClose)
              => /\ fsm_state'[u] = console_mode
                 /\ fsm_data'[u] = fsm_data[u]
                 /\ IF ~Command(t, TxtStart) /\ X \in DOMAIN reg
                    THEN /\ out'.handler = "handle_console_command"
                         /\ Len(out'.rcon) = 1
                         /\ out'.rcon[1].server = reg[X]
                         /\ out'.rcon[1].command = t
                         /\ out'.rcon[1].result \in {"response", ErrorText}
                    ELSE out'.rcon = <<>>
      ]_vars

\* C4 witness: a console command has just failed and its user is still in
\* the console.
C4_Witness ==
    /\ out.handler = "handle_console_command"
    /\ out.input = TxtList
    /\ Len(out.rcon) = 1
    /\ out.rcon[1].result = ErrorText
    /\ fsm_state[out.user] = console_mode

\* C5: a user in the console stays in the console of the same profile under
\* every event other than the close command: any other message and any
\* button press.
C5_ConsoleLeftOnlyByClose ==
    [][\A u \in Users :
          LET t == out'.input
          IN  /\ fsm_state[u] = console_mode
              /\ (MessageStep(u, t) /\ ~Command(t, TxtClose)) \/ CallbackStep(u, t)
              => /\ fsm_state'[u] = console_mode
                 /\ "server_id" \in DOMAIN fsm_data'[u]
                 /\ fsm_data'[u]["server_id"] = fsm_data[u]["server_id"]
      ]_vars

\* C6: at the command prompt the next text that is no command returns the
\* user to Idle with the scratch data cleared.
C6_CommandPromptReturnsToIdle ==
    [][\A u \in Users :
          LET t == out'.input
          IN  /\ MessageStep(u, t)
              /\ fsm_state[u] = waiting_for_command
              /\ ~RegisteredCommand(t)
              => fsm_state'[u] = StateNone /\ fsm_data'[u] = EmptyDict
      ]_vars

\* A remote call of the step failed.
RconFailed ==
    \E i \in 1..Len(out'.rcon) :
        execute_rcon_command(out'.rcon[i].server, out'.rcon[i].command, "fail")
           = out'.rcon[i].result

\* C7 (as stated): a failed remote call leaves the state and the scratch
\* data of the acting user as they were, whichever handler issued it.
C7_FailureKeepsState ==
    [][\A u \in Users :
          out'.user = u /\ RconFailed
          => fsm_state'[u] = fsm_state[u] /\ fsm_data'[u] = fsm_data[u]
      ]_vars

\* C7 (amended): a failed remote call returns the text of the error, which
\* the handler sends to the user.  In the console and for the status and
\* players buttons the state and the scratch data of the acting user are as
\* before; at the command prompt the state is cleared to Idle, as after a
\* successful command.
C7_FailureSurfaced ==
    [][\A u \in Users :
          out'.user = u /\ RconFailed
          => /\ Len(out'.rcon) = 1
             /\ out'.rcon[1].result = ErrorText
             /\ out'.error = "none"
             /\ out'.handler \in {"handle_console_command", "handle_command",
                                  "server_status", "server_players"}
             /\ out'.handler = "handle_console_command"
                => /\ out'.replies = <<Reply("answer", "server_response")>>
                   /\ fsm_state'[u] = fsm_state[u]
                   /\ fsm_data'[u] = fsm_data[u]
             /\ out'.handler = "server_status"
                => /\ out'.replies = <<Reply("edit_text", "server_status")>>
                   /\ fsm_state'[u] = fsm_state[u]
                   /\ fsm_data'[u] = fsm_data[u]
             /\ out'.handler = "server_players"
                => /\ out'.replies = <<Reply("edit_text", "players_online")>>
                   /\ fsm_state'[u] = fsm_state[u]
                   /\ fsm_data'[u] = fsm_data[u]
             /\ out'.handler = "handle_command"
                => /\ out'.replies[1] = Reply("answer", "server_response")
                   /\ fsm_state[u] = waiting_for_command
                   /\ fsm_state'[u] = StateNone
                   /\ fsm_data'[u] = EmptyDict
      ]_vars

\* C7 witness: the status button has just reported a failed remote call to
\* a user who is in the middle of the wizard.
C7_Witness ==
    /\ out.handler = "server_status"
    /\ Len(out.rcon) = 1
    /\ out.rcon[1].result = ErrorText
    /\ fsm_state[out.user] \in AddServer

\* C8 (as stated): the cancel and the close command force the state to Idle
\* from every state, and their text is never given to a step handler or
\* executed as a remote command.
C8_CancelAndCloseForceIdle ==
    [][\A u \in Users :
          LET t == out'.input
          IN  /\ MessageStep(u, t)
              /\ Command(t, TxtCancel) \/ Command(t, TxtClose)
              => /\ fsm_state'[u] = StateNone
                 /\ out'.handler \in {"cancel_command", "close_console"}
                 /\ out'.rcon = <<>>
      ]_vars

\* C8 (amended): the close command is handled by close_console in every
\* state (never by a step handler, never executed), and forces Idle only
\* from the console: in every other state it leaves the state as it is.
\* The cancel command is handled by cancel_command and forces Idle in every
\* state except the console, where it is handled as console text and the
\* state stays the console.
C8_CommandPrecedence ==
    [][\A u \in Users :
          LET t == out'.input
          IN  MessageStep(u, t)
              => /\ Command(t, TxtClose)
                    => /\ out'.handler = "close_console"
                       /\ out'.rcon = <<>>
                       /\ fsm_state'[u] =
                             IF fsm_state[u] = console_mode THEN StateNone
                             ELSE fsm_state[u]
                 /\ Command(t, TxtCancel)
                    => IF fsm_state[u] = console_mode
                       THEN /\ out'.handler = "handle_console_command"
                            /\ fsm_state'[u] = console_mode
                       ELSE /\ out'.handler = "cancel_command"
                            /\ out'.rcon = <<>>
                            /\ fsm_state'[u] = StateNone
      ]_vars

\* C8 witness: the text of the cancel command has just been executed as a
\* remote command in the console, and the user is still in the console.
C8_Witness ==
    /\ out.handler = "handle_console_command"
    /\ out.input = TxtSlashCancel
    /\ Len(out.rcon) = 1
    /\ out.rcon[1].command = TxtSlashCancel
    /\ fsm_state[out.user] = console_mode

\* C9: the cancel command in a wizard step or at the command prompt moves
\* the user to Idle with the scratch data cleared and the registry
\* unchanged; the close command in the console moves the user to Idle; the
\* close command in any other state leaves the state and the scratch data
\* unchanged.
C9_DistinctExits ==
    [][\A u \in Users :
          LET t == out'.input
          IN  MessageStep(u, t)
              => /\ /\ Command(t, TxtCancel)
                    /\ fsm_state[u] \in AddServer \cup {waiting_for_command}
                    => /\ fsm_state'[u] = StateNone
                       /\ fsm_data'[u] = EmptyDict
                       /\ UNCHANGED servers_file
                 /\ Command(t, TxtClose) /\ fsm_state[u] = console_mode
                    => fsm_state'[u] = StateNone
                 /\ Command(t, TxtClose) /\ fsm_state[u] # console_mode
                    => /\ fsm_state'[u] = fsm_state[u]
                       /\ fsm_data'[u] = fsm_data[u]
      ]_vars

\* C9 witness: the close command has just been received at the command
\* prompt, which is still open.
C9_Witness ==
    /\ out.handler = "close_console"
    /\ out.input = TxtSlashClose
    /\ fsm_state[out.user] = waiting_for_command
    /\ "server_id" \in DOMAIN fsm_data[out.user]

\* C10: a button press whose decoded profile id is not in the user's
\* registry answers "not found" and changes nothing: state, scratch data
\* and registry are as before and no remote command is executed.
C10_UnknownProfileChangesNothing ==
    [][\A u \in Users :
          LET d == out'.input
          IN  /\ CallbackStep(u, d)
              /\ CallbackRoute(d) \in ProfileButtons
              /\ split_last(d) \notin DOMAIN get_user_servers(u)
              => /\ out'.replies = <<NotFoundToast>>
                 /\ out'.rcon = <<>>
                 /\ out'.error = "none"
                 /\ UNCHANGED <<fsm_state, fsm_data, servers_file>>
      ]_vars

\* C10 witness: the open-console button of a profile that is not in the
\* registry has just been answered "not found" in the middle of the wizard.
C10_Witness ==
    /\ out.handler = "open_console"
    /\ out.replies = <<NotFoundToast>>
    /\ fsm_state[out.user] = waiting_for_port
    /\ DOMAIN fsm_data[out.user] = {"name", "host"}

\* The flow a state belongs to: the wizard, the command prompt, the
\* console, or none (Idle).
FlowTag(st) ==
    CASE st \in AddServer -> "adding_server"
      [] st = waiting_for_command -> "awaiting_command"
      [] st = console_mode -> "console_mode"
      [] OTHER -> "idle"

\* C12: a user in an active flow (a wizard step, the command prompt or the
\* console) moves to a different flow only through Idle: one event changes
\* the flow tag of an active flow to Idle or leaves it as it is, and no
\* button press replaces the active flow by another one.
C12_FlowReplacedOnlyThroughIdle ==
    [][\A u \in Users :
          /\ FlowTag(fsm_state[u]) # "idle"
          /\ FlowTag(fsm_state'[u]) # FlowTag(fsm_state[u])
          => FlowTag(fsm_state'[u]) = "idle"
      ]_vars

\* C17: completing the wizard keeps every profile the user's registry held
\* immediately before, under the same id and with the same fields, and the
\* number of the user's profiles grows by exactly one.
C17_AddKeepsExistingProfiles ==
    [][\A u \in Users :
          /\ out'.user = u
          /\ out'.handler = "process_server_password"
          /\ out'.error = "none"
          => LET before == get_user_servers(u)
                 after == get_user_servers(u)'
             IN  /\ \A id \in DOMAIN before :
                       id \in DOMAIN after /\ after[id] = before[id]
                 /\ Cardinality(DOMAIN after) = Cardinality(DOMAIN before) + 1
      ]_vars

\* C18: an event of a user who is not on the admin allow-list executes no
\* remote command and creates or removes no registry entry.
C18_OnlyAdminsAct ==
    [][\A u \in Users :
          out'.user = u /\ ~is_admin(u)
          => /\ out'.rcon = <<>>
             /\ \A v \in Users : get_user_servers(v)' = get_user_servers(v)
      ]_vars

\* C19: whenever a user's state is the password step of the wizard, the
\* scratch data holds a name, a host and an integer port, and the password
\* step has never failed on a missing field.
C19_PasswordStepHasAllFields ==
    /\ \A u \in Users :
          fsm_state[u] = waiting_for_password
          => /\ {"name", "host", "port"} \subseteq DOMAIN fsm_data[u]
             /\ fsm_data[u]["port"] \in Int
    /\ out.error # "KeyError"

\* C19 witness: the port step has just moved a user to the password step
\* whose scratch data still holds the profile id of an earlier flow.
C19_Witness ==
    /\ out.handler = "process_server_port"
    /\ fsm_state[out.user] = waiting_for_password
    /\ DOMAIN fsm_data[out.user] = {"server_id", "name", "host", "port"}

\* C11: a step of a handler of user u1, the save of a wizard completion and
\* of a delete included, leaves the stored entries of every other user u2 as
\* they were, however the handlers of the users interleave.
C11_RegistryIsolation ==
    [][\A k \in TaskIds : \A u2 \in Users :
          tasks'[k] # tasks[k] /\ tasks[k].user # u2
          => get_user_servers(u2)' = get_user_servers(u2)
      ]_vars

\* C11 witness: a user has just deleted a profile while the other user
\* holds a stored profile and has a wizard completion in flight.
C11_Witness ==
    /\ out.handler = "delete_server"
    /\ out.replies[1] = Reply("callback_answer", "server_deleted")
    /\ \E u2 \in Users \ {out.user} :
          /\ DOMAIN get_user_servers(u2) # {}
          /\ \E k \in TaskIds :
                /\ tasks[k].user = u2
                /\ tasks[k].handler = "process_server_password"
                /\ tasks[k].pc = "save"

\* C14: the remote call of a handler never ends in an exception.  Whatever
\* fails inside it (connection, credential, frame, timeout), the call
\* returns the text of the error, the handler answers the user with it and
\* returns, and the event loop is free for further events.
C14_FailureReturnedNotRaised ==
    [][\A k \in TaskIds :
          tasks[k].pc = "rcon"
          => /\ out'.user = tasks[k].user
             /\ out'.error = "none"
             /\ out'.replies = <<Reply("answer", "server_response")>>
             /\ Len(out'.rcon) = 1
             /\ out'.rcon[1].command = tasks[k].input
             /\ out'.rcon[1].cause \in RconFailures
                => out'.rcon[1].result = ErrorText
             /\ out'.rcon[1].cause = "none"
                => out'.rcon[1].result = "response"
             /\ tasks'[k] = NoTask
             /\ EventLoopFree'
      ]_vars

\* C14 witness: a remote call has just failed on a rejected password and
\* the handler has answered with the text of the error, while a handler of
\* the other user is in flight.
C14_Witness ==
    /\ out.handler = "handle_console_command"
    /\ Len(out.rcon) = 1
    /\ out.rcon[1].cause = "bad_credential"
    /\ out.rcon[1].result = ErrorText
    /\ out.replies = <<Reply("answer", "server_response")>>
    /\ \E k \in TaskIds : tasks[k].user \in Users \ {out.user}

\* The registry that the load-mutate-save operation of coroutine k makes of
\* the given registry: the wizard completion stores the new profile under
\* the next id, the delete removes the profile of the button.
Mutation(k, registry) ==
    IF tasks[k].handler = "process_server_password"
    THEN DictSet(registry, new_server_id(registry),
                 new_server(tasks[k].data, tasks[k].input))
    ELSE DictDel(registry, split_last(tasks[k].input))

\* C15: the wizard completions and deletes of a user are serialized.  Each
\* of them, when it ends, has made of the user's registry as it was at that
\* moment exactly what its load-mutate-save operation makes of it, and no
\* other step changes the file: however the handlers interleave at their
\* awaits, the registry is the result of the operations applied one after
\* the other, in the order they end, and no update is lost.
C15_MutationsSerialized ==
    [][/\ \A k \in TaskIds : \A u \in Users :
             /\ tasks[k].user = u
             /\ tasks'[k] = NoTask
             /\ out'.error = "none"
             => get_user_servers(u)' = Mutation(k, get_user_servers(u))
       /\ (\A k \in TaskIds : tasks[k] # NoTask => tasks'[k] # NoTask)
          => UNCHANGED servers_file
      ]_vars

\* C15 witness: two wizard completions of one user were in flight together
\* (the first to end clears the state, so the second was fed before) and
\* both have stored their profile.
C15_Witness ==
    /\ out.handler = "process_server_password"
    /\ out.error = "none"
    /\ fsm_state[out.user] = StateNone
    /\ DOMAIN get_user_servers(out.user) = {str(1), str(2)}
    /\ \A k \in TaskIds : tasks[k] = NoTask

\* An event of user b is taken, or a handler of user b in flight runs its
\* next step.
ProcessedFor(b) ==
    \/ \E t \in CoroutineTexts, j \in TaskIds : feed_message(b, t, j)
    \/ \E d \in CoroutineDatas, j \in TaskIds : feed_callback(b, d, j)
    \/ \E j \in TaskIds :
          /\ tasks[j].user = b
          /\ \/ handle_console_command_get_data(j)
             \/ handle_console_command_call(j)
             \/ delete_server_save(j)

\* C16: while the remote call of a handler of user A has started and not
\* returned, the events of every other user B can be processed: an event of
\* B can be taken while the event loop has room for its handler.
C16_RemoteCallBlocksNoOtherUser ==
    \A k \in TaskIds : \A b \in Users :
        /\ tasks[k].pc = "rcon"
        /\ tasks[k].user # b
        /\ \E j \in TaskIds : tasks[j] = NoTask
        => ENABLED ProcessedFor(b)

====
